---- MODULE Spec2Model ----
(***************************************************************************)
(* A model of rustshed: the Option / Result unions of option_result.py,    *)
(* the short-circuit accessor Q with the result_shortcut / option_shortcut *)
(* wrappers, and the to_result / to_option adapters.                       *)
(*                                                                         *)
(* Spec     : the call protocol.  A stack of active calls, an exception in *)
(*            flight, and the record of the call that finished last.       *)
(* SpecAlg  : the combinator algebra, applied to values drawn from a       *)
(*            bounded universe.                                            *)
(***************************************************************************)
EXTENDS Integers, Sequences, FiniteSets, TLC

VARIABLES stack, exc, done, val, out, log, op, ret

vars == <<stack, exc, done, val, out, log, op, ret>>
protoVars == <<stack, exc, done>>
algVars == <<val, out, log, op, ret>>

(***************************************************************************)
(* Bounds.                                                                 *)
(***************************************************************************)
\* deepest nesting of active calls
MaxDepth == 3
\* integer payloads are 0 .. MaxInt
MaxInt == 2

(***************************************************************************)
(* Python values.  Every value is a record with its class in cls.          *)
(***************************************************************************)
PyInt(n) == [cls |-> "int", value |-> n]
PyStr(s) == [cls |-> "str", value |-> s]
NoVal == [cls |-> "NoVal"]
NoExc == [cls |-> "NoExc"]

Some(v) == [cls |-> "Some", value |-> v]
Null == [cls |-> "NullType"]
Ok(v) == [cls |-> "Ok", value |-> v]
Err(e) == [cls |-> "Err", error |-> e]

PyBool(b) == [cls |-> "bool", value |-> b]

\* The fields of a value, as the tuple a dataclass compares.
Fields(a) ==
    CASE a.cls \in {"Some", "Ok"} -> <<a.value>>
      [] a.cls = "Err" -> <<a.error>>
      [] a.cls = "NullType" -> <<>>
      [] OTHER -> <<a>>

\* The generated __eq__ of a dataclass: same class, then equal fields.
PyEq(a, b) == a.cls = b.cls /\ Fields(a) = Fields(b)

(***************************************************************************)
(* Exceptions.  Bases gives the classes an instance of the class belongs   *)
(* to (Python's built-in hierarchy; IOError is an alias of OSError).       *)
(***************************************************************************)
ResultShortcutErrorMsg == "The Q operator used without rustshed.result_shortcut decorator!"
ResultShortcutError(error) ==
    [cls |-> "ResultShortcutError", msg |-> ResultShortcutErrorMsg, error |-> error]
OptionShortcutError == [cls |-> "OptionShortcutError"]
PyExc(c) == [cls |-> c]
\* Panic, the exception of panic.py, with the arguments it was raised with
Panic(args) == [cls |-> "Panic", args |-> args]

Bases(c) ==
    CASE c = "ResultShortcutError" -> {"ResultShortcutError", "Exception", "BaseException"}
      [] c = "OptionShortcutError" -> {"OptionShortcutError", "Exception", "BaseException"}
      [] c = "ValueError" -> {"ValueError", "Exception", "BaseException"}
      [] c = "OSError" -> {"OSError", "Exception", "BaseException"}
      [] c = "FileNotFoundError" -> {"FileNotFoundError", "OSError", "Exception", "BaseException"}
      [] c = "KeyboardInterrupt" -> {"KeyboardInterrupt", "BaseException"}
      [] c = "Panic" -> {"Panic", "Exception", "BaseException"}
      [] OTHER -> {}

IsInstance(x, c) == c \in Bases(x.cls)

\* How a piece of code ends: it returns a value or raises an exception.
Returns(v) == [tag |-> "return", val |-> v]
Raises(x) == [tag |-> "raise", val |-> x]

(***************************************************************************)
(* The accessor Q of the four variants.                                    *)
(***************************************************************************)
Some_Q(self) == Returns(self.value)

\* mutant: Q on Null yields Null instead of raising
NullType_Q_yields(self) == Returns(self)
NullType_Q(self) == Raises(OptionShortcutError)

\* mutant: Q on an Ok raises as Q on an Err does
Ok_Q_signals(self) == Raises(ResultShortcutError(self))
Ok_Q(self) == Returns(self.value)

\* mutant: Q on an Err yields the error instead of raising
Err_Q_yields(self) == Returns(self.error)
Err_Q(self) == Raises(ResultShortcutError(self))

\* mutant: Q raises on no variant; on Null and on an Err it yields the receiver
Q_unchecked(self) == Returns(IF self.cls \in {"Some", "Ok"} THEN self.value ELSE self)
Q(self) ==
    CASE self.cls = "Some" -> Some_Q(self)
      [] self.cls = "NullType" -> NullType_Q(self)
      [] self.cls = "Ok" -> Ok_Q(self)
      [] self.cls = "Err" -> Err_Q(self)

(***************************************************************************)
(* The wrappers.  body is how the wrapped function ended; the wrapper's    *)
(* value is how the wrapped call ends.                                     *)
(***************************************************************************)
\* mutant: the wrapper has no except clause
result_shortcut_wrapper_reraise(body) == body
\* mutant: the wrapper turns every other Exception into an Err too
result_shortcut_wrapper_catch_all(body) ==
    IF body.tag = "return" THEN Returns(body.val)
    ELSE IF IsInstance(body.val, "ResultShortcutError") THEN Returns(body.val.error)
    ELSE IF IsInstance(body.val, "Exception") THEN Returns(Err(body.val))
    ELSE Raises(body.val)
result_shortcut_wrapper(body) ==
    IF body.tag = "return" THEN Returns(body.val)
    ELSE IF IsInstance(body.val, "ResultShortcutError") THEN Returns(body.val.error)
    ELSE Raises(body.val)

\* mutant: the wrapper has no except clause
option_shortcut_wrapper_reraise(body) == body
\* mutant: the wrapper catches the signal of the other marker as well
option_shortcut_wrapper_both(body) ==
    IF body.tag = "return" THEN Returns(body.val)
    ELSE IF IsInstance(body.val, "OptionShortcutError") \/ IsInstance(body.val, "ResultShortcutError")
    THEN Returns(Null)
    ELSE Raises(body.val)
option_shortcut_wrapper(body) ==
    IF body.tag = "return" THEN Returns(body.val)
    ELSE IF IsInstance(body.val, "OptionShortcutError") THEN Returns(Null)
    ELSE Raises(body.val)

\* mutant: the wrapper catches OSError only
to_result_wrapper_narrow(body) ==
    IF body.tag = "return" THEN Returns(Ok(body.val))
    ELSE IF IsInstance(body.val, "OSError") THEN Returns(Err(body.val))
    ELSE Raises(body.val)
to_result_wrapper(body) ==
    IF body.tag = "return" THEN Returns(Ok(body.val))
    ELSE IF IsInstance(body.val, "Exception") THEN Returns(Err(body.val))
    ELSE Raises(body.val)

\* to_result[E]: __getitem__ ignores its argument and returns the same
\* decorator object, so the lifted function is to_result's wrapper.
to_result_getitem(E, body) == to_result_wrapper(body)

\* mutant: a bare except clause, which catches every BaseException
to_option_wrapper_bare(body) ==
    IF body.tag = "return" THEN Returns(Some(body.val)) ELSE Returns(Null)
to_option_wrapper(body) ==
    IF body.tag = "return" THEN Returns(Some(body.val))
    ELSE IF IsInstance(body.val, "Exception") THEN Returns(Null)
    ELSE Raises(body.val)

\* A function that is not decorated: its call ends as its body ends.
plain_call(body) == body

\* The kinds of function a call can be to; declared is the E of to_result[E].
Fn(k, e) == [kind |-> k, declared |-> e]
Callees ==
    {Fn("plain", "none"), Fn("result_shortcut", "none"), Fn("option_shortcut", "none"),
     Fn("to_option", "none"), Fn("to_result", "none"),
     Fn("to_result", "OSError")}

CallEnds(f, body) ==
    CASE f.kind = "result_shortcut" -> result_shortcut_wrapper(body)
      [] f.kind = "option_shortcut" -> option_shortcut_wrapper(body)
      [] f.kind = "to_option" -> to_option_wrapper(body)
      [] f.kind = "to_result" /\ f.declared = "none" -> to_result_wrapper(body)
      [] f.kind = "to_result" /\ f.declared # "none" -> to_result_getitem(f.declared, body)
      [] f.kind = "plain" -> plain_call(body)

(***************************************************************************)
(* The call protocol.                                                      *)
(*                                                                         *)
(* stack : the active calls, the running one last.  A frame has the kind   *)
(*         of function called, the state of its body (Running, Propagating *)
(*         after its own Q raised, Raising after its own raise) and the    *)
(*         last thing its body did with what that yielded.                 *)
(* exc   : the exception in flight, or NoExc.  With an empty stack it has  *)
(*         reached the top-level caller.                                   *)
(* done  : the call that ended in the last step, or NoCall: the state its   *)
(*         body was in (from), the value its Q raised on (q), how the body *)
(*         ended and how the call ended.                                   *)
(***************************************************************************)
Event(o, a, v) == [op |-> o, arg |-> a, val |-> v]
NoEvent == Event("none", NoVal, NoVal)

Frame(f) == [kind |-> f.kind, declared |-> f.declared, state |-> "Running", last |-> NoEvent]

NoCall ==
    [kind |-> "none", declared |-> "none", state |-> "none", from |-> "none", q |-> NoVal,
     body |-> Returns(NoVal), outcome |-> Returns(NoVal)]

\* what a body applies Q to, returns, and raises
Ints == 0 .. MaxInt
ErrPayloads == {PyStr("e1"), PyStr("e2")}
QArgs == {Ok(PyInt(1)), Some(PyInt(1)), Null} \cup {Err(e) : e \in ErrPayloads}
BodyVals == QArgs \cup {PyInt(1)}
BodyExcs ==
    {PyExc("ValueError"), PyExc("FileNotFoundError"), PyExc("KeyboardInterrupt"), Panic(<<>>)}

IsUnion(v) == v.cls \in {"Some", "NullType", "Ok", "Err"}
IsNegative(v) == v.cls \in {"NullType", "Err"}
IsSignal(x) == x.cls \in {"ResultShortcutError", "OptionShortcutError"}

Depth == Len(stack)
Top == stack[Depth]
Running == Depth > 0 /\ exc = NoExc /\ Top.state = "Running"
Pop == SubSeq(stack, 1, Depth - 1)

\* The caller, if any, resumes with the value the call returned.
Deliver(v) ==
    IF Depth > 1
    THEN [Pop EXCEPT ![Depth - 1].last = Event("call", NoVal, v)]
    ELSE Pop

Finished(body, outcome) ==
    [kind |-> Top.kind, declared |-> Top.declared,
     state |-> IF outcome.tag = "raise" THEN "Aborted"
               ELSE IF body.tag = "raise" THEN "ReturnedFailure"
               ELSE "ReturnedSuccess",
     from |-> Top.state, q |-> IF Top.state = "Propagating" THEN Top.last.arg ELSE NoVal,
     body |-> body, outcome |-> outcome]

\* The call of the top frame ends, its body having ended as `body`.
EndCall(body) ==
    LET outcome == CallEnds(Top, body) IN
    /\ done' = Finished(body, outcome)
    /\ IF outcome.tag = "return"
       THEN stack' = Deliver(outcome.val) /\ exc' = NoExc
       ELSE stack' = Pop /\ exc' = outcome.val

\* The top-level caller, or the running body, calls a function.
Call(f) ==
    /\ Depth < MaxDepth
    /\ exc = NoExc
    /\ Depth > 0 => Top.state = "Running"
    /\ stack' = Append(IF Depth > 0
                       THEN [stack EXCEPT ![Depth].last = Event("calling", NoVal, NoVal)]
                       ELSE stack,
                       Frame(f))
    /\ done' = NoCall
    /\ UNCHANGED <<exc, algVars>>

\* The running body evaluates v.Q.
EvalQOn(v) ==
    /\ Running
    /\ LET r == Q(v) IN
       IF r.tag = "return"
       THEN /\ stack' = [stack EXCEPT ![Depth].last = Event("Q", v, r.val)]
            /\ exc' = exc
       ELSE /\ stack' = [stack EXCEPT ![Depth].last = Event("Q", v, NoVal),
                                      ![Depth].state = "Propagating"]
            /\ exc' = r.val
    /\ done' = NoCall
    /\ UNCHANGED algVars

\* The running body returns v.
BodyReturn(v) ==
    /\ Running
    /\ EndCall(Returns(v))
    /\ UNCHANGED algVars

\* The running body raises an exception of its own.
BodyRaise(x) ==
    /\ Running
    /\ stack' = [stack EXCEPT ![Depth].last = Event("raise", NoVal, NoVal),
                              ![Depth].state = "Raising"]
    /\ exc' = x
    /\ done' = NoCall
    /\ UNCHANGED algVars

\* An exception leaves the body of the top frame: its wrapper's except clause.
Unwind ==
    /\ Depth > 0
    /\ exc # NoExc
    /\ EndCall(Raises(exc))
    /\ UNCHANGED algVars

\* An exception has left the outermost call: the top-level caller handles it.
TopCatch ==
    /\ Depth = 0
    /\ exc # NoExc
    /\ exc' = NoExc
    /\ done' = NoCall
    /\ UNCHANGED <<stack, algVars>>

\* The union value the running body holds from its last call or Q, if any.
Received == IF Depth > 0 /\ Top.last.op \in {"call", "Q"} /\ IsUnion(Top.last.val)
            THEN {Top.last.val} ELSE {}

\* Q is applied to a value the body built or to the one it received.
EvalQ == \E v \in QArgs \cup Received : EvalQOn(v)

AlgIdle == val = Null /\ out = Returns(NoVal) /\ log = <<>> /\ op = "none" /\ ret = "other"

Init ==
    /\ stack = <<>>
    /\ exc = NoExc
    /\ done = NoCall
    /\ AlgIdle

Next ==
    \/ \E f \in Callees : Call(f)
    \/ EvalQ
    \/ \E v \in BodyVals : BodyReturn(v)
    \/ \E x \in BodyExcs : BodyRaise(x)
    \/ Unwind
    \/ TopCatch

Spec == Init /\ [][Next]_vars

(***************************************************************************)
(* Properties of the call protocol (checked under Spec).                   *)
(***************************************************************************)
OptedIn(f) == f.kind \in {"result_shortcut", "option_shortcut"}
\* the union a marker opts its function into
OwnUnion(f, v) ==
    \/ f.kind = "result_shortcut" /\ v.cls \in {"Ok", "Err"}
    \/ f.kind = "option_shortcut" /\ v.cls \in {"Some", "NullType"}
\* the signal a marker's wrapper catches
Encloses(f, x) ==
    \/ f.kind = "result_shortcut" /\ x.cls = "ResultShortcutError"
    \/ f.kind = "option_shortcut" /\ x.cls = "OptionShortcutError"
\* the failure a call returns when Q raised on the negative value v
Failure(v) == IF v.cls = "Err" THEN v ELSE Null
Signal(v) == IF v.cls = "Err" THEN ResultShortcutError(v) ELSE OptionShortcutError

\* C1: in a function wrapped by result_shortcut (option_shortcut), Q applied to
\* Err(e) (Null) stops the body at once, with the signal in flight and no value
\* yielded, and the wrapped call returns exactly Err(e) (Null); Q applied to
\* Ok(v) (Some(v)) yields v and the body goes on running.
C1_ShortcutReturnsFailure ==
    /\ \A i \in 1 .. Depth :
          LET f == stack[i] IN
          (OptedIn(f) /\ f.last.op = "Q" /\ OwnUnion(f, f.last.arg)) =>
             IF IsNegative(f.last.arg)
             THEN /\ f.state = "Propagating"
                  /\ f.last.val = NoVal
                  /\ i = Depth
                  /\ exc = Signal(f.last.arg)
             ELSE /\ f.state = "Running"
                  /\ f.last.val = f.last.arg.value
                  /\ exc = NoExc
    /\ (OptedIn(done) /\ done.from = "Propagating" /\ OwnUnion(done, done.q)) =>
          /\ done.outcome = Returns(Failure(done.q))
          /\ exc = NoExc

C1_Witness ==
    /\ done.kind = "result_shortcut"
    /\ done.q = Err(PyStr("e2"))
    /\ done.outcome = Returns(Err(PyStr("e2")))

\* C2: the state machine of a call to an opted-in function, for the accessor of
\* its own union.  A Running body stays Running on a positive Q, becomes
\* Propagating on a negative Q, and ends in ReturnedSuccess with exactly the
\* value it returned; a Propagating call takes no body step: its one
\* successor is ReturnedFailure, and with that the call is off the stack.  A
\* body is not resumed either once an exception has come out of a callee.
C2_Step(i) ==
    LET f == stack[i] IN
    IF i < Depth
    THEN \* a caller waits for its callee: it can only stay as it is, resume
         \* Running with the callee's value, or meet the callee's exception
         Len(stack') >= i => stack'[i].state = "Running"
    ELSE CASE f.state = "Running" /\ exc = NoExc ->
                IF Len(stack') >= i
                THEN LET g == stack'[i] IN
                     /\ g.state \in {"Running", "Propagating", "Raising"}
                     /\ g.state = "Propagating" <=>
                           (g.last.op = "Q" /\ IsNegative(g.last.arg))
                     /\ (g.last.op = "Q" /\ ~IsNegative(g.last.arg)) => g.state = "Running"
                ELSE /\ done'.state = "ReturnedSuccess"
                     /\ done'.outcome = done'.body
                     /\ done'.body.tag = "return"
           [] f.state = "Propagating" /\ OwnUnion(f, f.last.arg) ->
                /\ Len(stack') = i - 1
                /\ done'.state = "ReturnedFailure"
                /\ done'.from = "Propagating"
                /\ done'.outcome = Returns(Failure(f.last.arg))
           [] f.state = "Running" /\ exc # NoExc ->
                \* an exception out of a callee: the body is not resumed
                /\ Len(stack') = i - 1
                /\ done'.state = IF Encloses(f, exc) THEN "ReturnedFailure" ELSE "Aborted"
           [] OTHER -> TRUE

C2_StateMachine ==
    [][\A i \in 1 .. Depth : OptedIn(stack[i]) => C2_Step(i)]_vars

C2_Witness ==
    /\ done.kind = "option_shortcut"
    /\ done.state = "ReturnedFailure"
    /\ done.from = "Propagating"
    /\ Depth = 0

\* C3: with no opted-in function on the stack, Q applied to Err or Null yields
\* no value: it raises ResultShortcutError, carrying the Err and the message,
\* or OptionShortcutError; the exception, which is no Err or Null value,
\* leaves the function that applied Q and, through plain callers, reaches the
\* top-level caller.
NoOptedIn == \A i \in 1 .. Depth : ~OptedIn(stack[i])

C4_SignalPassesNonOptedIn ==
    (/\ done.kind \in {"plain", "to_option", "to_result"}
     /\ done.body.tag = "raise"
     /\ IsSignal(done.body.val)
     /\ \E i \in 1 .. Depth : Encloses(stack[i], done.body.val)) =>
        /\ done.outcome = done.body
        /\ exc = done.body.val

\* C5: a signal unwinds exactly one opted-in frame.  When the wrapper of a call
\* g catches the signal its own body raised, the signal is gone, and the caller
\* f of g is still on the stack, Running, holding the failure as the value of
\* the call.
C5_OneFrameUnwound ==
    (/\ OptedIn(done)
     /\ done.body.tag = "raise"
     /\ Encloses(done, done.body.val)) =>
        /\ done.state = "ReturnedFailure"
        /\ exc = NoExc
        /\ Depth > 0 =>
              /\ Top.state = "Running"
              /\ Top.last = Event("call", NoVal, done.outcome.val)
              /\ IsNegative(Top.last.val)
              /\ done.from = "Propagating" => Top.last.val = Failure(done.q)

C5_Witness ==
    /\ Depth = 2
    /\ Top.kind = "result_shortcut"
    /\ stack[1].kind = "result_shortcut"
    /\ done.kind = "result_shortcut"
    /\ done.from = "Propagating"
    /\ Top.state = "Running"
    /\ Top.last.val = Err(PyStr("e1"))

\* C6 (the claim as stated): a function lifted with to_result[E] returns
\* Err(x) when its body raises an exception x that is an instance of E, and
\* lets an exception that is not an instance of E through to its caller.
C6_OnlyExpectedConverted ==
    (done.kind = "to_result" /\ done.declared # "none" /\ done.from = "Raising") =>
       IF IsInstance(done.body.val, done.declared)
       THEN done.outcome = Returns(Err(done.body.val))
       ELSE done.outcome = Raises(done.body.val)

\* C7: a function lifted with to_result returns Ok(r) when its body returns r,
\* and Err(x), raising nothing, when its body raises an Exception x.
C7_ToResult ==
    (done.kind = "to_result" /\ done.declared = "none") =>
       /\ done.body.tag = "return" => done.outcome = Returns(Ok(done.body.val))
       /\ (done.body.tag = "raise" /\ IsInstance(done.body.val, "Exception")) =>
             /\ done.outcome = Returns(Err(done.body.val))
             /\ exc = NoExc

C7_Witness ==
    /\ done.kind = "to_result"
    /\ done.declared = "none"
    /\ done.body = Raises(PyExc("ValueError"))
    /\ done.outcome = Returns(Err(PyExc("ValueError")))

\* C8 (the claim as stated): a function lifted with to_option returns Some(r)
\* when its body returns r, and Null, raising nothing, whatever its body raises.
C8_ToOptionNeverRaises ==
    done.kind = "to_option" =>
       /\ done.body.tag = "return" => done.outcome = Returns(Some(done.body.val))
       /\ done.body.tag = "raise" => done.outcome = Returns(Null)

\* C8 (amended): a function lifted with to_option returns Some(r) when its body
\* returns r, and Null when its body raises an instance of Exception; an
\* exception that is no instance of Exception leaves the lifted call.
C8_ToOption ==
    done.kind = "to_option" =>
       /\ done.body.tag = "return" => done.outcome = Returns(Some(done.body.val))
       /\ done.body.tag = "raise" =>
             IF IsInstance(done.body.val, "Exception")
             THEN done.outcome = Returns(Null) /\ exc = NoExc
             ELSE done.outcome = Raises(done.body.val) /\ exc = done.body.val

C8_Witness ==
    /\ done.kind = "to_option"
    /\ done.body = Raises(PyExc("ValueError"))
    /\ done.outcome = Returns(Null)

\* C22: first-failure ordering.  In a function wrapped by result_shortcut or
\* option_shortcut whose body applies Q to one value after another, a positive
\* value lets the body go on; the first Err (Null) stops it: the body takes no
\* further step, nothing more is evaluated, and the call returns that Err
\* (Null).  When no Q met a failure the call returns what the body returns,
\* which may itself be an Err or Null, returned normally.
C22_Step ==
    (Depth > 0 /\ OptedIn(Top)) =>
       LET f == Top IN
       CASE f.state = "Propagating" /\ OwnUnion(f, f.last.arg) ->
               \* the only step is the end of the call, with the failure
               /\ Len(stack') = Depth - 1
               /\ done'.q = f.last.arg
               /\ done'.outcome = Returns(Failure(f.last.arg))
               /\ exc' = NoExc
               /\ Depth > 1 =>
                     stack'[Depth - 1].last = Event("call", NoVal, Failure(f.last.arg))
         [] f.state = "Running" /\ exc = NoExc ->
               IF Len(stack') = Depth /\ stack'[Depth].last.op = "Q"
               THEN LET g == stack'[Depth] IN
                    OwnUnion(f, g.last.arg) =>
                       IF IsNegative(g.last.arg)
                       THEN g.state = "Propagating" /\ exc' = Signal(g.last.arg)
                       ELSE /\ g.state = "Running"
                            /\ exc' = NoExc
                            /\ g.last.val = g.last.arg.value
               ELSE Len(stack') = Depth - 1 =>
                       /\ done'.from = "Running"
                       /\ done'.body.tag = "return"
                       /\ done'.outcome = done'.body
         [] OTHER -> TRUE

\* a body that is still running, or waits for a callee, met no failure yet
C22_NoFailureYet ==
    \A i \in 1 .. Depth :
       (OptedIn(stack[i]) /\ stack[i].state = "Running" /\ stack[i].last.op = "Q"
        /\ OwnUnion(stack[i], stack[i].last.arg)) => ~IsNegative(stack[i].last.arg)

C22_FirstFailure == [][C22_Step]_vars /\ []C22_NoFailureYet

C22_Witness ==
    /\ done.kind = "result_shortcut"
    /\ done.from = "Running"
    /\ done.state = "ReturnedSuccess"
    /\ done.outcome = Returns(Err(PyStr("e1")))
    /\ Depth = 1
    /\ Top.kind = "option_shortcut"

\* C28: a Panic raised in the body of an opted-in function, or come into
\* it out of a callee, is not caught by the wrapper of result_shortcut or
\* option_shortcut: the call ends raising that Panic and returns no Null and
\* no Err.
C28_PanicPassesShortcut ==
    /\ \A x \in {Panic(<<>>)} \cup {Panic(<<m>>) : m \in ErrPayloads} :
          /\ result_shortcut_wrapper(Raises(x)) = Raises(x)
          /\ option_shortcut_wrapper(Raises(x)) = Raises(x)
    /\ (OptedIn(done) /\ done.body.tag = "raise" /\ done.body.val.cls = "Panic") =>
          /\ done.outcome = done.body
          /\ done.state = "Aborted"
          /\ exc = done.body.val

C28_Witness ==
    /\ done.kind = "option_shortcut"
    /\ done.from = "Raising"
    /\ done.body = Raises(Panic(<<>>))
    /\ done.outcome = Raises(Panic(<<>>))
    /\ exc = Panic(<<>>)

\* C29: the markers are not interchangeable.  The signal of Err(e).Q in a
\* function that has only option_shortcut, or of Null.Q in a function that has
\* only result_shortcut, is not converted: the call ends raising it.  It
\* goes on, through opted-in frames of the other kind, until the wrapper of
\* its own kind returns the failure, or it reaches the caller as an exception.
C29_Unwinds ==
    (Depth > 0 /\ OptedIn(Top) /\ IsSignal(exc)) =>
       /\ stack' = IF Encloses(Top, exc) THEN Deliver(done'.outcome.val) ELSE Pop
       /\ IF Encloses(Top, exc)
          THEN /\ exc' = NoExc
               /\ done'.outcome = Returns(IF exc.cls = "ResultShortcutError" THEN exc.error ELSE Null)
          ELSE /\ exc' = exc
               /\ done'.outcome = Raises(exc)
               /\ done'.state = "Aborted"

C29_WrongKind ==
    (/\ OptedIn(done)
     /\ done.body.tag = "raise"
     /\ IsSignal(done.body.val)
     /\ ~Encloses(done, done.body.val)) =>
        /\ done.outcome = done.body
        /\ exc = done.body.val
        /\ done.from = "Propagating" =>
              /\ ~OwnUnion(done, done.q)
              /\ exc = Signal(done.q)

C29_MarkersDistinct == [][C29_Unwinds]_vars /\ []C29_WrongKind

C29_Witness ==
    /\ done.kind = "option_shortcut"
    /\ done.from = "Propagating"
    /\ done.q = Err(PyStr("e1"))
    /\ done.outcome = Raises(ResultShortcutError(Err(PyStr("e1"))))
    /\ Depth = 1
    /\ Top.kind = "result_shortcut"
    /\ exc = ResultShortcutError(Err(PyStr("e1")))

\* C30: Q on the positive variant is unconditional.  Some(v).Q and Ok(v).Q
\* evaluate to v and raise nothing, whatever the function that applies Q and
\* whatever is on the stack: opted in for this union, for the other, or not
\* at all.
C30_PositiveQ ==
    /\ \A v \in {PyInt(n) : n \in Ints} \cup ErrPayloads :
          /\ Q(Some(v)) = Returns(v) /\ Some_Q(Some(v)) = Returns(v)
          /\ Q(Ok(v)) = Returns(v) /\ Ok_Q(Ok(v)) = Returns(v)
    /\ \A i \in 1 .. Depth :
          LET f == stack[i] IN
          (f.last.op = "Q" /\ f.last.arg.cls \in {"Some", "Ok"}) =>
             /\ f.last.val = f.last.arg.value
             /\ f.state = "Running"
             /\ i = Depth
             /\ exc = NoExc

C30_Witness ==
    /\ Depth = 2
    /\ NoOptedIn
    /\ Top.kind = "plain"
    /\ Top.last = Event("Q", Ok(PyInt(1)), PyInt(1))
    /\ Top.state = "Running"
    /\ exc = NoExc

(***************************************************************************)
(* The combinator algebra.                                                 *)
(*                                                                         *)
(* val : the receiver, drawn from Receivers.                               *)
(* op  : the operation applied last, out how it ended, and log the calls   *)
(*       it made to the callbacks it was given, in order.                  *)
(* ret : "self" when the operation returned the receiver object itself     *)
(*       (the code says `return self`), "other" for any other object.      *)
(*                                                                         *)
(* A combinator is an operator whose value says how the call ended, which  *)
(* callbacks it called and whether it returned the receiver itself.  A     *)
(* callback is a total function on the integer payloads.                   *)
(***************************************************************************)
Payloads == {PyInt(n) : n \in Ints}
Options == {Null} \cup {Some(p) : p \in Payloads}
Results == {Ok(p) : p \in Payloads} \cup {Err(p) : p \in Payloads}
Universe == Options \cup Results

\* a tuple, as in Some((1, "hi"))
PyTuple(items) == [cls |-> "tuple", items |-> items]

\* receivers whose payload is itself a union (Option of Result, Result of
\* Option, Option of Option, once more nested) or a tuple of two or three
Nested ==
    {Some(r) : r \in Results} \cup {Ok(o) : o \in Options} \cup {Some(o) : o \in Options}
        \cup {Some(Some(o)) : o \in Options}
        \cup {Some(PyTuple(<<a, b>>)) : a, b \in Payloads}
        \cup {Some(PyTuple(<<a, a, a>>)) : a \in Payloads}
Receivers == Universe \cup Nested

\* the callbacks: the constant functions and the shifts n + b (modulo the
\* size of the payload range, so that results stay payloads)
Callbacks == {[n \in Ints |-> (a * n + b) % (MaxInt + 1)] : a \in {0, 1}, b \in Ints}
Identity == [n \in Ints |-> n]
Compose(g, f) == [n \in Ints |-> g[f[n]]]
Invoke(f, a) == PyInt(f[a.value])
Called(f, a) == [fn |-> f, arg |-> a]

\* `return <expression>`, `return self` and `raise <exception>`
Yield(v, calls) == [end |-> Returns(v), calls |-> calls, ret |-> "other"]
Itself(self, calls) == [end |-> Returns(self), calls |-> calls, ret |-> "self"]
Throw(x, calls) == [end |-> Raises(x), calls |-> calls, ret |-> "other"]

IsOption(v) == v.cls \in {"Some", "NullType"}
IsResult(v) == v.cls \in {"Ok", "Err"}

\* is_some / is_null / is_ok / is_err of the four variants
Some_is_some(self) == TRUE
Some_is_null(self) == FALSE
NullType_is_some(self) == FALSE
\* mutant: Null answers is_null as Some does
NullType_is_null_false(self) == FALSE
NullType_is_null(self) == TRUE
Ok_is_ok(self) == TRUE
Ok_is_err(self) == FALSE
Err_is_ok(self) == FALSE
Err_is_err(self) == TRUE

Option_is_some(self) == IF self.cls = "Some" THEN Some_is_some(self) ELSE NullType_is_some(self)
Option_is_null(self) == IF self.cls = "Some" THEN Some_is_null(self) ELSE NullType_is_null(self)
Result_is_ok(self) == IF self.cls = "Ok" THEN Ok_is_ok(self) ELSE Err_is_ok(self)
Result_is_err(self) == IF self.cls = "Ok" THEN Ok_is_err(self) ELSE Err_is_err(self)

\* the module-level guards of typeguards.py
is_some(opt) == Option_is_some(opt)
is_null(opt) == Option_is_null(opt)
is_ok(res) == Result_is_ok(res)
is_err(res) == Result_is_err(res)

\* map of the four variants
Some_map(self, f) == Yield(Some(Invoke(f, self.value)), <<Called(f, self.value)>>)
NullType_map(self, f) == Itself(self, <<>>)
Ok_map(self, fn) == Yield(Ok(Invoke(fn, self.value)), <<Called(fn, self.value)>>)
\* mutant: map on an Err maps the error, as map_err does
Err_map_error(self, fn) == Yield(Err(Invoke(fn, self.error)), <<Called(fn, self.error)>>)
Err_map(self, fn) == Itself(self, <<>>)

map(self, f) ==
    CASE self.cls = "Some" -> Some_map(self, f)
      [] self.cls = "NullType" -> NullType_map(self, f)
      [] self.cls = "Ok" -> Ok_map(self, f)
      [] self.cls = "Err" -> Err_map(self, f)

\* Callbacks of other shapes are functions on argument tuples: CallFn is
\* the call f(*args), and Called(f, args) its entry in the log.
CallFn(f, args) == f[args]

\* callbacks that return a union, as and_then and or_else take: below the
\* threshold t the negative variant, from t on the positive one
Binders ==
    {[a \in {<<p>> : p \in Payloads} |->
        IF a[1].value < t THEN Null ELSE Some(PyInt((a[1].value + b) % (MaxInt + 1)))] :
            t \in 0 .. MaxInt + 1, b \in Ints}
    \cup
    {[a \in {<<p>> : p \in Payloads} |->
        IF a[1].value < t THEN Err(a[1]) ELSE Ok(PyInt((a[1].value + b) % (MaxInt + 1)))] :
            t \in 0 .. MaxInt + 1, b \in Ints}
\* those whose results are of the union x belongs to
BindersFor(x) == {f \in Binders : \A a \in DOMAIN f : IsOption(f[a]) = IsOption(x)}

\* mutant: and_then calls the callback and keeps the receiver, as inspect does
and_then_inspects(self, f) ==
    CASE self.cls = "Some" -> Itself(self, <<Called(f, <<self.value>>)>>)
      [] self.cls = "NullType" -> Itself(self, <<>>)
      [] self.cls = "Ok" -> Itself(self, <<Called(f, <<self.value>>)>>)
      [] self.cls = "Err" -> Itself(self, <<>>)
and_then(self, f) ==
    CASE self.cls = "Some" -> Yield(CallFn(f, <<self.value>>), <<Called(f, <<self.value>>)>>)
      [] self.cls = "NullType" -> Itself(self, <<>>)
      [] self.cls = "Ok" -> Yield(CallFn(f, <<self.value>>), <<Called(f, <<self.value>>)>>)
      [] self.cls = "Err" -> Itself(self, <<>>)
\* lambda v: f(v).and_then(g)
Bind(f, g) == [a \in DOMAIN f |-> and_then(CallFn(f, a), g).end.val]

\* r.ok(), r.err() and x.ok_or(err): the conversions between the two unions
\* mutant: ok on an Err keeps the error as the payload of a Some
ok_keeps_error(self) ==
    CASE self.cls = "Ok" -> Yield(Some(self.value), <<>>)
      [] self.cls = "Err" -> Yield(Some(self.error), <<>>)
ok(self) ==
    CASE self.cls = "Ok" -> Yield(Some(self.value), <<>>)
      [] self.cls = "Err" -> Yield(Null, <<>>)
err(self) ==
    CASE self.cls = "Ok" -> Yield(Null, <<>>)
      [] self.cls = "Err" -> Yield(Some(self.error), <<>>)
ok_or(self, e) ==
    CASE self.cls = "Some" -> Yield(Ok(self.value), <<>>)
      [] self.cls = "NullType" -> Yield(Err(e), <<>>)

\* x.transpose(): match self, with `raise RuntimeError` in the default case
\* mutant: transpose of an Err gives the Err, unwrapped
transpose_err_bare(self) ==
    CASE self.cls = "Some" /\ self.value.cls = "Ok" -> Yield(Ok(Some(self.value.value)), <<>>)
      [] self.cls = "Some" /\ self.value.cls = "Err" -> Yield(Err(self.value.error), <<>>)
      [] self.cls = "NullType" -> Yield(Ok(Null), <<>>)
      [] self.cls = "Ok" /\ self.value.cls = "Some" -> Yield(Some(Ok(self.value.value)), <<>>)
      [] self.cls = "Ok" /\ self.value.cls = "NullType" -> Yield(Null, <<>>)
      [] self.cls = "Err" -> Itself(self, <<>>)
      [] OTHER -> Throw(PyExc("RuntimeError"), <<>>)
transpose(self) ==
    CASE self.cls = "Some" /\ self.value.cls = "Ok" -> Yield(Ok(Some(self.value.value)), <<>>)
      [] self.cls = "Some" /\ self.value.cls = "Err" -> Yield(Err(self.value.error), <<>>)
      [] self.cls = "NullType" -> Yield(Ok(Null), <<>>)
      [] self.cls = "Ok" /\ self.value.cls = "Some" -> Yield(Some(Ok(self.value.value)), <<>>)
      [] self.cls = "Ok" /\ self.value.cls = "NullType" -> Yield(Null, <<>>)
      [] self.cls = "Err" -> Yield(Some(self), <<>>)
      [] OTHER -> Throw(PyExc("RuntimeError"), <<>>)

\* x.flatten(): match self, with `raise RuntimeError` in the default case
\* mutant: flatten removes two levels where there are two to remove
flatten_two(self) ==
    CASE self.cls = "Some" /\ self.value.cls = "NullType" -> Yield(Null, <<>>)
      [] self.cls = "Some" /\ self.value.cls = "Some" ->
            IF IsOption(self.value.value)
            THEN Yield(self.value.value, <<>>)
            ELSE Yield(Some(self.value.value), <<>>)
      [] self.cls = "NullType" -> Yield(Null, <<>>)
      [] OTHER -> Throw(PyExc("RuntimeError"), <<>>)
flatten(self) ==
    CASE self.cls = "Some" /\ self.value.cls = "NullType" -> Yield(Null, <<>>)
      [] self.cls = "Some" /\ self.value.cls = "Some" -> Yield(Some(self.value.value), <<>>)
      [] self.cls = "NullType" -> Yield(Null, <<>>)
      [] OTHER -> Throw(PyExc("RuntimeError"), <<>>)

\* mutant: xor of a Some is the Some whatever the argument is, as or_ is
xor_keeps(self, optb) ==
    CASE self.cls = "Some" -> Itself(self, <<>>)
      [] self.cls = "NullType" -> IF Option_is_null(optb) THEN Itself(self, <<>>) ELSE Yield(optb, <<>>)
\* a.xor(optb)
xor(self, optb) ==
    CASE self.cls = "Some" -> IF Option_is_null(optb) THEN Itself(self, <<>>) ELSE Yield(Null, <<>>)
      [] self.cls = "NullType" -> IF Option_is_null(optb) THEN Itself(self, <<>>) ELSE Yield(optb, <<>>)

\* the two-argument callbacks zip_with takes: 0, x, y and x + y
Zippers ==
    {[a \in Payloads \X Payloads |-> PyInt((i * a[1].value + j * a[2].value) % (MaxInt + 1))] :
        i, j \in {0, 1}}

\* a.zip(other), a.zip_with(other, f): match other, case Some(value)
zip(self, other) ==
    CASE self.cls = "Some" ->
            IF other.cls = "Some"
            THEN Yield(Some(PyTuple(<<self.value, other.value>>)), <<>>)
            ELSE Yield(Null, <<>>)
      [] self.cls = "NullType" -> Yield(Null, <<>>)
zip_with(self, other, f) ==
    CASE self.cls = "Some" ->
            IF other.cls = "Some"
            THEN Yield(Some(CallFn(f, <<self.value, other.value>>)),
                       <<Called(f, <<self.value, other.value>>)>>)
            ELSE Yield(Null, <<>>)
      [] self.cls = "NullType" -> Yield(Null, <<>>)

\* x.unzip(): match self, case Some((left, right)), a sequence of two items
\* mutant: unzip takes the first two items of a longer tuple too
unzip_prefix(self) ==
    IF self.cls = "Some" /\ self.value.cls = "tuple" /\ Len(self.value.items) >= 2
    THEN Yield(PyTuple(<<Some(self.value.items[1]), Some(self.value.items[2])>>), <<>>)
    ELSE Yield(PyTuple(<<Null, Null>>), <<>>)
unzip(self) ==
    IF self.cls = "Some" /\ self.value.cls = "tuple" /\ Len(self.value.items) = 2
    THEN Yield(PyTuple(<<Some(self.value.items[1]), Some(self.value.items[2])>>), <<>>)
    ELSE Yield(PyTuple(<<Null, Null>>), <<>>)

\* Message is str() of a Panic: of its only argument, or empty when it has none.
\* str(v) of a payload, and f"{msg}: {v}"
str(v) ==
    CASE v.cls = "str" -> v
      [] v.cls = "int" -> PyStr(ToString(v.value))
Message(x) == IF x.args = <<>> THEN PyStr("") ELSE str(x.args[1])
FString(msg, v) == PyStr(msg.value \o ": " \o str(v).value)
\* the messages given to expect and expect_err
Messages == {PyStr("Testing expect"), PyStr("fruits are healthy")}

\* x.expect(msg), x.unwrap()
\* mutant: expect on an Err puts the error after the message, as the
\* documentation of expect says
expect_documented(self, msg) ==
    CASE self.cls \in {"Some", "Ok"} -> Yield(self.value, <<>>)
      [] self.cls = "NullType" -> Throw(Panic(<<msg>>), <<>>)
      [] self.cls = "Err" -> Throw(Panic(<<FString(msg, self.error)>>), <<>>)
expect(self, msg) ==
    CASE self.cls \in {"Some", "Ok"} -> Yield(self.value, <<>>)
      [] self.cls = "NullType" -> Throw(Panic(<<msg>>), <<>>)
      [] self.cls = "Err" -> Throw(Panic(<<msg>>), <<>>)
unwrap(self) ==
    CASE self.cls \in {"Some", "Ok"} -> Yield(self.value, <<>>)
      [] self.cls = "NullType" -> Throw(Panic(<<>>), <<>>)
      [] self.cls = "Err" -> Throw(Panic(<<self.error>>), <<>>)

\* r.expect_err(msg), r.unwrap_err()
\* mutant: expect_err on an Ok raises the message alone
expect_err_plain(self, msg) ==
    CASE self.cls = "Ok" -> Throw(Panic(<<msg>>), <<>>)
      [] self.cls = "Err" -> Yield(self.error, <<>>)
expect_err(self, msg) ==
    CASE self.cls = "Ok" -> Throw(Panic(<<FString(msg, self.value)>>), <<>>)
      [] self.cls = "Err" -> Yield(self.error, <<>>)
unwrap_err(self) ==
    CASE self.cls = "Ok" -> Throw(Panic(<<self.value>>), <<>>)
      [] self.cls = "Err" -> Yield(self.error, <<>>)

\* callbacks without arguments, as the Option fallbacks are: each returns one
\* payload or one Option
Thunks == {[a \in {<<>>} |-> v] : v \in Payloads \cup Options}
\* predicates: is the payload at least t
Predicates ==
    {[a \in {<<p>> : p \in Payloads} |-> PyBool(a[1].value >= t)] : t \in 0 .. MaxInt + 1}

\* x.unwrap_or_else(f): the fallback of an Option takes no argument, that of
\* a Result the error
unwrap_or_else(self, f) ==
    CASE self.cls \in {"Some", "Ok"} -> Yield(self.value, <<>>)
      [] self.cls = "NullType" -> Yield(CallFn(f, <<>>), <<Called(f, <<>>)>>)
      [] self.cls = "Err" -> Yield(Invoke(f, self.error), <<Called(f, self.error)>>)
\* x.map_or(default, f), x.map_or_else(default, f)
map_or(self, default, f) ==
    CASE self.cls \in {"Some", "Ok"} -> Yield(Invoke(f, self.value), <<Called(f, self.value)>>)
      [] self.cls \in {"NullType", "Err"} -> Yield(default, <<>>)
\* mutant: map_or_else on an Err applies f, not default, to the error
map_or_else_maps(self, default, f) ==
    CASE self.cls \in {"Some", "Ok"} -> Yield(Invoke(f, self.value), <<Called(f, self.value)>>)
      [] self.cls = "NullType" -> Yield(CallFn(default, <<>>), <<Called(default, <<>>)>>)
      [] self.cls = "Err" -> Yield(Invoke(f, self.error), <<Called(f, self.error)>>)
map_or_else(self, default, f) ==
    CASE self.cls \in {"Some", "Ok"} -> Yield(Invoke(f, self.value), <<Called(f, self.value)>>)
      [] self.cls = "NullType" -> Yield(CallFn(default, <<>>), <<Called(default, <<>>)>>)
      [] self.cls = "Err" -> Yield(Invoke(default, self.error), <<Called(default, self.error)>>)
\* mutant: or_else calls its fallback before it looks at the receiver
or_else_eager(self, f) ==
    CASE self.cls = "Some" -> Itself(self, <<Called(f, <<>>)>>)
      [] self.cls = "Ok" -> Itself(self, <<Called(f, <<self.value>>)>>)
      [] self.cls = "NullType" -> Yield(CallFn(f, <<>>), <<Called(f, <<>>)>>)
      [] self.cls = "Err" -> Yield(CallFn(f, <<self.error>>), <<Called(f, <<self.error>>)>>)
\* x.or_else(f)
or_else(self, f) ==
    CASE self.cls \in {"Some", "Ok"} -> Itself(self, <<>>)
      [] self.cls = "NullType" -> Yield(CallFn(f, <<>>), <<Called(f, <<>>)>>)
      [] self.cls = "Err" -> Yield(CallFn(f, <<self.error>>), <<Called(f, <<self.error>>)>>)
\* x.ok_or_else(e)
ok_or_else(self, e) ==
    CASE self.cls = "Some" -> Yield(Ok(self.value), <<>>)
      [] self.cls = "NullType" -> Yield(Err(CallFn(e, <<>>)), <<Called(e, <<>>)>>)
\* x.filter(predicate)
filter(self, predicate) ==
    CASE self.cls = "Some" ->
            Yield(IF CallFn(predicate, <<self.value>>).value THEN Some(self.value) ELSE Null,
                  <<Called(predicate, <<self.value>>)>>)
      [] self.cls = "NullType" -> Itself(self, <<>>)
\* x.is_some_and(f), r.is_ok_and(f)
is_some_and(self, f) ==
    CASE self.cls = "Some" -> Yield(CallFn(f, <<self.value>>), <<Called(f, <<self.value>>)>>)
      [] self.cls = "NullType" -> Yield(PyBool(FALSE), <<>>)
is_ok_and(self, f) ==
    CASE self.cls = "Ok" -> Yield(CallFn(f, <<self.value>>), <<Called(f, <<self.value>>)>>)
      [] self.cls = "Err" -> Yield(PyBool(FALSE), <<>>)
\* x.inspect(f): what f returns is dropped
inspect(self, f) ==
    CASE self.cls \in {"Some", "Ok"} -> Itself(self, <<Called(f, self.value)>>)
      [] self.cls \in {"NullType", "Err"} -> Itself(self, <<>>)

\* mutant: or_ of a Some or an Ok returns an equal copy of the receiver
or_copies(self, optb) ==
    CASE self.cls = "Some" -> Yield(Some(self.value), <<>>)
      [] self.cls = "Ok" -> Yield(Ok(self.value), <<>>)
      [] self.cls \in {"NullType", "Err"} -> Yield(optb, <<>>)
\* a.or_(optb), a.and_(optb)
or_(self, optb) ==
    CASE self.cls \in {"Some", "Ok"} -> Itself(self, <<>>)
      [] self.cls \in {"NullType", "Err"} -> Yield(optb, <<>>)
\* mutant: and_ of a Null or an Err gives the argument when that is negative
\* too: the late error, not the early one
and_late(self, optb) ==
    CASE self.cls \in {"Some", "Ok"} -> Yield(optb, <<>>)
      [] self.cls \in {"NullType", "Err"} ->
            IF optb.cls \in {"NullType", "Err"} THEN Yield(optb, <<>>) ELSE Itself(self, <<>>)
and_(self, optb) ==
    CASE self.cls \in {"Some", "Ok"} -> Yield(optb, <<>>)
      [] self.cls \in {"NullType", "Err"} -> Itself(self, <<>>)
\* r.map_err(fn), r.inspect_err(f)
\* mutant: map_err maps the payload of an Ok too
map_err_both(self, fn) ==
    CASE self.cls = "Ok" -> Yield(Ok(Invoke(fn, self.value)), <<Called(fn, self.value)>>)
      [] self.cls = "Err" -> Yield(Err(Invoke(fn, self.error)), <<Called(fn, self.error)>>)
map_err(self, fn) ==
    CASE self.cls = "Ok" -> Itself(self, <<>>)
      [] self.cls = "Err" -> Yield(Err(Invoke(fn, self.error)), <<Called(fn, self.error)>>)
\* mutant: inspect_err gives an Err of what f returned, as map_err does
inspect_err_maps(self, f) ==
    CASE self.cls = "Ok" -> Itself(self, <<>>)
      [] self.cls = "Err" -> Yield(Err(Invoke(f, self.error)), <<Called(f, self.error)>>)
inspect_err(self, f) ==
    CASE self.cls = "Ok" -> Itself(self, <<>>)
      [] self.cls = "Err" -> Itself(self, <<Called(f, self.error)>>)

\* x.value = v (x.error = v on an Err): the classes are frozen dataclasses,
\* whose __setattr__ raises.  self is the receiver after the statement.
setattr(self, v) ==
    [end |-> Raises(PyExc("FrozenInstanceError")), calls |-> <<>>, ret |-> "other",
     self |-> self]

\* mutant: unwrap_or on Null and on an Err panics, as unwrap does
unwrap_or_panics(self, default) ==
    CASE self.cls \in {"Some", "Ok"} -> Yield(self.value, <<>>)
      [] self.cls \in {"NullType", "Err"} -> Throw(Panic(<<>>), <<>>)
\* x.unwrap_or(default)
unwrap_or(self, default) ==
    CASE self.cls \in {"Some", "Ok"} -> Yield(self.value, <<>>)
      [] self.cls \in {"NullType", "Err"} -> Yield(default, <<>>)
\* r.is_err_and(f), r.contains(x), r.contains_err(f)
is_err_and(self, f) ==
    CASE self.cls = "Ok" -> Yield(PyBool(FALSE), <<>>)
      [] self.cls = "Err" -> Yield(CallFn(f, <<self.error>>), <<Called(f, <<self.error>>)>>)
contains(self, x) ==
    CASE self.cls = "Ok" -> Yield(PyBool(self.value = x), <<>>)
      [] self.cls = "Err" -> Yield(PyBool(FALSE), <<>>)
contains_err(self, f) ==
    CASE self.cls = "Ok" -> Yield(PyBool(FALSE), <<>>)
      [] self.cls = "Err" -> Yield(PyBool(self.error = f), <<>>)

Applied(name, r) ==
    /\ op' = name
    /\ out' = r.end
    /\ log' = r.calls
    /\ ret' = r.ret
    /\ UNCHANGED <<val, protoVars>>

\* x.is_some(), x.is_null(), r.is_ok(), r.is_err()
DoIsSome == IsOption(val) /\ Applied("is_some", Yield(PyBool(Option_is_some(val)), <<>>))
DoIsNull == IsOption(val) /\ Applied("is_null", Yield(PyBool(Option_is_null(val)), <<>>))
DoIsOk == IsResult(val) /\ Applied("is_ok", Yield(PyBool(Result_is_ok(val)), <<>>))
DoIsErr == IsResult(val) /\ Applied("is_err", Yield(PyBool(Result_is_err(val)), <<>>))

\* x == other
DoEq(other) ==
    /\ other \in Universe
    /\ Applied("eq", Yield([cls |-> "eq", with |-> other, value |-> PyEq(val, other)], <<>>))

\* x.map(f)
DoMap(f) ==
    /\ f \in Callbacks
    /\ val \in Universe
    /\ Applied("map", map(val, f))

\* x.and_then(f)
DoAndThen(f) ==
    /\ val \in Universe
    /\ f \in BindersFor(val)
    /\ Applied("and_then", and_then(val, f))

\* r.ok(), r.err()
DoOk == IsResult(val) /\ Applied("ok", ok(val))
DoErr == IsResult(val) /\ Applied("err", err(val))

\* x.ok_or(e)
DoOkOr(e) ==
    /\ IsOption(val)
    /\ Applied("ok_or", ok_or(val, e))

\* x.transpose()
DoTranspose == IsUnion(val) /\ Applied("transpose", transpose(val))

\* x.flatten()
DoFlatten == IsOption(val) /\ Applied("flatten", flatten(val))

\* a.xor(optb)
DoXor(optb) ==
    /\ val \in Options
    /\ Applied("xor", xor(val, optb))

\* a.zip(other), a.zip_with(other, f), x.unzip()
DoZip(other) ==
    /\ val \in Options
    /\ Applied("zip", zip(val, other))
DoZipWith(other, f) ==
    /\ val \in Options
    /\ Applied("zip_with", zip_with(val, other, f))
DoUnzip == IsOption(val) /\ Applied("unzip", unzip(val))

\* x.expect(msg), x.unwrap()
DoExpect(msg) ==
    /\ IsUnion(val)
    /\ Applied("expect", expect(val, msg))
DoUnwrap == IsUnion(val) /\ Applied("unwrap", unwrap(val))

\* r.expect_err(msg), r.unwrap_err()
DoExpectErr(msg) ==
    /\ val \in Results
    /\ Applied("expect_err", expect_err(val, msg))
DoUnwrapErr == val \in Results /\ Applied("unwrap_err", unwrap_err(val))

\* x.unwrap_or_else(f)
DoUnwrapOrElse(f) ==
    /\ val \in Universe
    /\ IF IsOption(val) THEN f \in Thunks /\ CallFn(f, <<>>) \in Payloads ELSE f \in Callbacks
    /\ Applied("unwrap_or_else", unwrap_or_else(val, f))

\* x.map_or(default, f)
DoMapOr(default, f) ==
    /\ val \in Universe
    /\ Applied("map_or", map_or(val, default, f))

\* x.map_or_else(default, f)
DoMapOrElse(default, f) ==
    /\ val \in Universe
    /\ IF IsOption(val)
       THEN default \in Thunks /\ CallFn(default, <<>>) \in Payloads
       ELSE default \in Callbacks
    /\ Applied("map_or_else", map_or_else(val, default, f))

\* x.or_else(f)
DoOrElse(f) ==
    /\ val \in Universe
    /\ IF IsOption(val) THEN f \in Thunks /\ CallFn(f, <<>>) \in Options ELSE f \in BindersFor(val)
    /\ Applied("or_else", or_else(val, f))

\* x.ok_or_else(e)
DoOkOrElse(e) ==
    /\ val \in Options
    /\ CallFn(e, <<>>) \in Payloads
    /\ Applied("ok_or_else", ok_or_else(val, e))

\* x.filter(predicate)
DoFilter(predicate) ==
    /\ val \in Options
    /\ Applied("filter", filter(val, predicate))

\* x.is_some_and(f), r.is_ok_and(f)
DoIsSomeAnd(f) ==
    /\ val \in Options
    /\ Applied("is_some_and", is_some_and(val, f))
DoIsOkAnd(f) ==
    /\ val \in Results
    /\ Applied("is_ok_and", is_ok_and(val, f))

\* x.inspect(f)
DoInspect(f) ==
    /\ val \in Universe
    /\ Applied("inspect", inspect(val, f))

\* a.or_(optb), a.and_(optb)
DoOr(optb) ==
    /\ val \in Universe
    /\ IsOption(optb) = IsOption(val)
    /\ Applied("or_", or_(val, optb))
DoAnd(optb) ==
    /\ val \in Universe
    /\ IsOption(optb) = IsOption(val)
    /\ Applied("and_", and_(val, optb))

\* r.map_err(fn), r.inspect_err(f)
DoMapErr(fn) ==
    /\ val \in Results
    /\ Applied("map_err", map_err(val, fn))
DoInspectErr(f) ==
    /\ val \in Results
    /\ Applied("inspect_err", inspect_err(val, f))

\* x.value = v
DoSetAttr(v) ==
    /\ IsUnion(val)
    /\ val' = setattr(val, v).self
    /\ op' = "setattr"
    /\ out' = setattr(val, v).end
    /\ log' = setattr(val, v).calls
    /\ ret' = setattr(val, v).ret
    /\ UNCHANGED protoVars

\* x.unwrap_or(default)
DoUnwrapOr(default) ==
    /\ IsUnion(val)
    /\ Applied("unwrap_or", unwrap_or(val, default))

\* r.is_err_and(f), r.contains(x), r.contains_err(f)
DoIsErrAnd(f) ==
    /\ val \in Results
    /\ Applied("is_err_and", is_err_and(val, f))
DoContains(x) ==
    /\ val \in Results
    /\ Applied("contains", contains(val, x))
DoContainsErr(f) ==
    /\ val \in Results
    /\ Applied("contains_err", contains_err(val, f))

ProtoIdle == stack = <<>> /\ exc = NoExc /\ done = NoCall

InitAlg ==
    /\ ProtoIdle
    /\ val \in Receivers
    /\ out = Returns(NoVal)
    /\ log = <<>>
    /\ op = "none"
    /\ ret = "other"

NextAlg ==
    \/ DoIsSome
    \/ DoIsNull
    \/ DoIsOk
    \/ DoIsErr
    \/ \E other \in Universe : DoEq(other)
    \/ \E f \in Callbacks : DoMap(f)
    \/ \E f \in Binders : DoAndThen(f)
    \/ DoOk
    \/ DoErr
    \/ \E e \in Payloads : DoOkOr(e)
    \/ DoTranspose
    \/ DoFlatten
    \/ \E optb \in Options : DoXor(optb)
    \/ \E other \in Options : DoZip(other)
    \/ \E other \in Options, f \in Zippers : DoZipWith(other, f)
    \/ DoUnzip
    \/ \E msg \in Messages : DoExpect(msg)
    \/ DoUnwrap
    \/ \E msg \in Messages : DoExpectErr(msg)
    \/ DoUnwrapErr
    \/ \E f \in Thunks \cup Callbacks : DoUnwrapOrElse(f)
    \/ \E default \in Payloads, f \in Callbacks : DoMapOr(default, f)
    \/ \E default \in Thunks \cup Callbacks, f \in Callbacks : DoMapOrElse(default, f)
    \/ \E f \in Thunks \cup Binders : DoOrElse(f)
    \/ \E e \in Thunks : DoOkOrElse(e)
    \/ \E predicate \in Predicates : DoFilter(predicate)
    \/ \E f \in Predicates : DoIsSomeAnd(f)
    \/ \E f \in Predicates : DoIsOkAnd(f)
    \/ \E f \in Callbacks : DoInspect(f)
    \/ \E optb \in Universe : DoOr(optb)
    \/ \E optb \in Universe : DoAnd(optb)
    \/ \E fn \in Callbacks : DoMapErr(fn)
    \/ \E f \in Callbacks : DoInspectErr(f)
    \/ \E v \in Payloads : DoSetAttr(v)
    \/ \E default \in Payloads : DoUnwrapOr(default)
    \/ \E f \in Predicates : DoIsErrAnd(f)
    \/ \E x \in Payloads : DoContains(x)
    \/ \E f \in Payloads : DoContainsErr(f)

SpecAlg == InitAlg /\ [][NextAlg]_vars

(***************************************************************************)
(* Properties of the combinator algebra (checked under SpecAlg).           *)
(***************************************************************************)
\* C9: of is_some and is_null exactly one is true of every Option, of is_ok and
\* is_err exactly one of every Result; the module-level guards answer as the
\* methods do; and no Some equals Null and no Ok equals an Err.
C9_Exhaustive ==
    /\ IsOption(val) =>
          /\ Option_is_some(val) # Option_is_null(val)
          /\ is_some(val) = Option_is_some(val)
          /\ is_null(val) = Option_is_null(val)
          /\ is_some(val) <=> val.cls = "Some"
    /\ IsResult(val) =>
          /\ Result_is_ok(val) # Result_is_err(val)
          /\ is_ok(val) = Result_is_ok(val)
          /\ is_err(val) = Result_is_err(val)
          /\ is_ok(val) <=> val.cls = "Ok"
    /\ op = "is_some" => out.val = PyBool(val.cls = "Some")
    /\ op = "is_null" => out.val = PyBool(val.cls = "NullType")
    /\ op = "is_ok" => out.val = PyBool(val.cls = "Ok")
    /\ op = "is_err" => out.val = PyBool(val.cls = "Err")
    /\ \A a \in Universe :
          /\ (val.cls = "Some" /\ a.cls = "NullType") => ~PyEq(val, a) /\ ~PyEq(a, val)
          /\ (val.cls = "Ok" /\ a.cls = "Err") => ~PyEq(val, a) /\ ~PyEq(a, val)
    /\ (op = "eq" /\ out.val.value) => val.cls = out.val.with.cls

C9_Witness ==
    /\ op = "eq"
    /\ val = Ok(PyInt(1))
    /\ out.val.with = Err(PyInt(1))
    /\ out.val.value = FALSE

\* C10: the functor laws of map.  x.map(identity) == x; x.map(f).map(g) ==
\* x.map(g after f); and on Null and on Err map calls no function and its
\* result is the receiver.
C10_FunctorLaws ==
    /\ val \in Universe =>
          /\ PyEq(map(val, Identity).end.val, val)
          /\ \A f, g \in Callbacks :
                PyEq(map(map(val, f).end.val, g).end.val, map(val, Compose(g, f)).end.val)
          /\ \A f \in Callbacks :
                IsNegative(val) => map(val, f) = Itself(val, <<>>)
    /\ op = "map" =>
          /\ out.tag = "return"
          /\ out.val.cls = val.cls
          /\ IF IsNegative(val)
             THEN log = <<>> /\ out.val = val
             ELSE /\ Len(log) = 1
                  /\ log[1].arg = val.value
                  /\ out.val.value = Invoke(log[1].fn, val.value)

C10_Witness ==
    /\ op = "map"
    /\ val = Some(PyInt(1))
    /\ out = Returns(Some(PyInt(2)))
    /\ Len(log) = 1

\* C11: and_then is associative on Option and on Result:
\* x.and_then(f).and_then(g) == x.and_then(lambda v: f(v).and_then(g));
\* Some(v).and_then(f) and Ok(v).and_then(f) are f(v), with f called once; and
\* on Null and on Err and_then gives the receiver without calling f.
C11_MonadAssociativity ==
    /\ val \in Universe =>
          /\ \A f, g \in BindersFor(val) :
                PyEq(and_then(and_then(val, f).end.val, g).end.val,
                     and_then(val, Bind(f, g)).end.val)
          /\ \A f \in BindersFor(val) :
                IF IsNegative(val)
                THEN /\ and_then(val, f).end = Returns(val)
                     /\ and_then(val, f).calls = <<>>
                ELSE /\ and_then(val, f).end = Returns(CallFn(f, <<val.value>>))
                     /\ and_then(val, f).calls = <<Called(f, <<val.value>>)>>
    /\ op = "and_then" =>
          /\ out.tag = "return"
          /\ IsOption(out.val) = IsOption(val)
          /\ IF IsNegative(val)
             THEN log = <<>> /\ PyEq(out.val, val)
             ELSE /\ Len(log) = 1
                  /\ log[1].arg = <<val.value>>
                  /\ PyEq(out.val, CallFn(log[1].fn, <<val.value>>))

C11_Witness ==
    /\ op = "and_then"
    /\ val = Ok(PyInt(1))
    /\ out = Returns(Err(PyInt(1)))
    /\ Len(log) = 1

\* C12: the conversions between Option and Result.  Ok(v).ok() == Some(v) and
\* Err(e).ok() == Null; Ok(v).err() == Null and Err(e).err() == Some(e);
\* Some(v).ok_or(e) == Ok(v) and Null.ok_or(e) == Err(e).  So r.ok().ok_or(e)
\* == r for every Ok r, and of r.ok() and r.err() exactly one is a Some.
C12_Conversions ==
    /\ val.cls = "Ok" =>
          /\ PyEq(ok(val).end.val, Some(val.value))
          /\ PyEq(err(val).end.val, Null)
          /\ \A e \in Payloads : PyEq(ok_or(ok(val).end.val, e).end.val, val)
    /\ val.cls = "Err" =>
          /\ PyEq(ok(val).end.val, Null)
          /\ PyEq(err(val).end.val, Some(val.error))
    /\ IsResult(val) =>
          /\ is_some(ok(val).end.val) # is_some(err(val).end.val)
          /\ ok(val).calls = <<>> /\ err(val).calls = <<>>
    /\ \A e \in Payloads :
          /\ val.cls = "Some" => PyEq(ok_or(val, e).end.val, Ok(val.value))
          /\ val.cls = "NullType" => PyEq(ok_or(val, e).end.val, Err(e))
    /\ op = "ok" => out = Returns(IF val.cls = "Ok" THEN Some(val.value) ELSE Null)
    /\ op = "err" => out = Returns(IF val.cls = "Err" THEN Some(val.error) ELSE Null)
    /\ op = "ok_or" =>
          /\ out.tag = "return"
          /\ IF val.cls = "Some" THEN out.val = Ok(val.value) ELSE out.val.cls = "Err"

C12_Witness ==
    /\ op = "ok"
    /\ val = Err(PyInt(1))
    /\ out = Returns(Null)

\* C13: transpose is an involution between Option-of-Result and
\* Result-of-Option.  Null.transpose() == Ok(Null) and Ok(Null).transpose() ==
\* Null; Some(Ok(v)).transpose() == Ok(Some(v)) and back; Some(Err(e)).transpose()
\* == Err(e) and Err(e).transpose() == Some(Err(e)).  So x.transpose().transpose()
\* == x for every well-typed x, in either direction.
C13_TransposeInvolution ==
    LET typed == \/ val.cls = "NullType"
                 \/ val.cls = "Some" /\ IsResult(val.value)
                 \/ val.cls = "Ok" /\ IsOption(val.value)
                 \/ val.cls = "Err"
        once == transpose(val).end
    IN  /\ typed =>
              /\ once.tag = "return"
              /\ IsOption(once.val) # IsOption(val)
              /\ transpose(once.val).end.tag = "return"
              /\ PyEq(transpose(once.val).end.val, val)
              /\ val.cls = "NullType" => PyEq(once.val, Ok(Null))
              /\ val = Ok(Null) => PyEq(once.val, Null)
              /\ (val.cls = "Some" /\ val.value.cls = "Ok") =>
                    PyEq(once.val, Ok(Some(val.value.value)))
              /\ (val.cls = "Ok" /\ val.value.cls = "Some") =>
                    PyEq(once.val, Some(Ok(val.value.value)))
              /\ (val.cls = "Some" /\ val.value.cls = "Err") =>
                    PyEq(once.val, Err(val.value.error))
              /\ val.cls = "Err" => PyEq(once.val, Some(Err(val.error)))
        /\ op = "transpose" => out = once /\ log = <<>>

C13_Witness ==
    /\ op = "transpose"
    /\ val = Some(Err(PyInt(1)))
    /\ out = Returns(Err(PyInt(1)))

\* C14: flatten removes exactly one level of Option.  Some(Some(v)).flatten()
\* == Some(v), Some(Null).flatten() == Null and Null.flatten() == Null; of a
\* triple nesting one flatten leaves Some(Some(v)) and the second Some(v).
C14_FlattenOneLevel ==
    LET once == flatten(val).end
    IN  /\ (val.cls = "Some" /\ IsOption(val.value)) =>
              /\ once.tag = "return"
              /\ PyEq(once.val, val.value)
              /\ val.value.cls = "Some" => PyEq(once.val, Some(val.value.value))
              /\ val.value.cls = "NullType" => PyEq(once.val, Null)
              /\ (val.value.cls = "Some" /\ val.value.value.cls = "Some") =>
                    /\ PyEq(once.val, Some(Some(val.value.value.value)))
                    /\ PyEq(flatten(once.val).end.val, Some(val.value.value.value))
                    /\ ~PyEq(once.val, flatten(once.val).end.val)
        /\ val.cls = "NullType" => once = Returns(Null)
        /\ op = "flatten" => out = once /\ log = <<>>

C14_Witness ==
    /\ op = "flatten"
    /\ val = Some(Some(Some(PyInt(1))))
    /\ out = Returns(Some(Some(PyInt(1))))

\* C15: a.xor(b) is a Some if and only if exactly one of a and b is a Some, and
\* then it is that one; when both are Some (equal payloads or not) and when
\* both are Null it is Null.
C15_Xor ==
    /\ val \in Options =>
          \A b \in Options :
              LET r == xor(val, b).end.val
              IN  /\ xor(val, b).end.tag = "return"
                  /\ is_some(r) <=> (is_some(val) # is_some(b))
                  /\ (is_some(val) /\ is_null(b)) => PyEq(r, val)
                  /\ (is_null(val) /\ is_some(b)) => PyEq(r, b)
                  /\ (is_some(val) = is_some(b)) => PyEq(r, Null)
    /\ op = "xor" =>
          /\ out.tag = "return" /\ log = <<>>
          /\ (is_some(val) /\ is_some(out.val)) => out.val = val

C15_Witness ==
    /\ op = "xor"
    /\ val = Some(PyInt(2))
    /\ out = Returns(Null)

\* C16: a.zip(b) is Some((x, y)) if and only if a is Some(x) and b is Some(y),
\* and Null otherwise; a.zip_with(b, f) is Some(f(x, y)) in that case and Null
\* otherwise, without calling f; Some((x, y)).unzip() is (Some(x), Some(y)),
\* and Null.unzip() and Some(p).unzip() for p not a pair are (Null, Null); so
\* a.zip(b).unzip() == (a, b) when both are Some.
C16_ZipUnzip ==
    /\ val \in Options =>
          \A b \in Options :
              LET both == val.cls = "Some" /\ b.cls = "Some"
                  z == zip(val, b)
              IN  /\ z.end.tag = "return" /\ z.calls = <<>>
                  /\ IF both
                     THEN /\ PyEq(z.end.val, Some(PyTuple(<<val.value, b.value>>)))
                          /\ PyEq(unzip(z.end.val).end.val, PyTuple(<<val, b>>))
                     ELSE PyEq(z.end.val, Null)
                  /\ \A f \in Zippers :
                        IF both
                        THEN /\ PyEq(zip_with(val, b, f).end.val,
                                     Some(CallFn(f, <<val.value, b.value>>)))
                             /\ zip_with(val, b, f).calls = <<Called(f, <<val.value, b.value>>)>>
                        ELSE /\ PyEq(zip_with(val, b, f).end.val, Null)
                             /\ zip_with(val, b, f).calls = <<>>
    /\ IsOption(val) =>
          LET pair == val.cls = "Some" /\ val.value.cls = "tuple" /\ Len(val.value.items) = 2
          IN  PyEq(unzip(val).end.val,
                   IF pair
                   THEN PyTuple(<<Some(val.value.items[1]), Some(val.value.items[2])>>)
                   ELSE PyTuple(<<Null, Null>>))
    /\ op = "unzip" => out = unzip(val).end /\ log = <<>>
    /\ op = "zip" => log = <<>> /\ (val.cls = "NullType" => out = Returns(Null))
    /\ op = "zip_with" =>
          /\ Len(log) <= 1
          /\ log = <<>> <=> out = Returns(Null)
          /\ val.cls = "NullType" => log = <<>>

C16_Witness ==
    /\ op = "unzip"
    /\ val = Some(PyTuple(<<PyInt(1), PyInt(2)>>))
    /\ out = Returns(PyTuple(<<Some(PyInt(1)), Some(PyInt(2))>>))

C18_UnwrapErrExpectErr ==
    /\ val \in Results =>
          /\ \A msg \in Messages :
                IF val.cls = "Err"
                THEN expect_err(val, msg).end = Returns(val.error)
                ELSE /\ expect_err(val, msg).end.tag = "raise"
                     /\ expect_err(val, msg).end.val.cls = "Panic"
                     /\ Message(expect_err(val, msg).end.val).value
                            = msg.value \o ": " \o ToString(val.value.value)
          /\ IF val.cls = "Err"
             THEN unwrap_err(val).end = Returns(val.error)
             ELSE /\ unwrap_err(val).end.tag = "raise"
                  /\ unwrap_err(val).end.val.cls = "Panic"
                  /\ Message(unwrap_err(val).end.val) = PyStr(ToString(val.value.value))
    /\ op \in {"expect_err", "unwrap_err"} =>
          /\ log = <<>>
          /\ IF val.cls = "Err"
             THEN out = Returns(val.error)
             ELSE out.tag = "raise" /\ out.val.cls = "Panic"

C18_Witness ==
    /\ op = "expect_err"
    /\ val = Ok(PyInt(1))
    /\ out.tag = "raise"
    /\ Message(out.val) = PyStr("Testing expect: 1")

\* C19: a combinator calls each callback it is given at most once, and only
\* when the variant of the receiver asks for it.  The fallback of
\* unwrap_or_else, map_or_else, or_else and ok_or_else is not called on Some
\* and Ok and is called exactly once on Null and Err; the function of map,
\* map_or, map_or_else, and_then, filter, is_some_and, is_ok_and, inspect and
\* zip_with is not called on Null and Err; Null.is_some_and(p) is False
\* without a call of p.
C19_CallbackDiscipline ==
    LET neg == IsNegative(val)
    IN  /\ Len(log) <= 1
        /\ val \in Universe =>
              /\ \A f \in Callbacks :
                    /\ map(val, f).calls = IF neg THEN <<>> ELSE <<Called(f, val.value)>>
                    /\ inspect(val, f).calls = IF neg THEN <<>> ELSE <<Called(f, val.value)>>
                    /\ \A d \in Payloads :
                          map_or(val, d, f).calls = IF neg THEN <<>> ELSE <<Called(f, val.value)>>
              /\ \A f \in BindersFor(val) :
                    and_then(val, f).calls = IF neg THEN <<>> ELSE <<Called(f, <<val.value>>)>>
        /\ val \in Options =>
              /\ \A t \in Thunks :
                    LET fallback == IF neg THEN <<Called(t, <<>>)>> ELSE <<>>
                    IN  /\ unwrap_or_else(val, t).calls = fallback
                        /\ or_else(val, t).calls = fallback
                        /\ ok_or_else(val, t).calls = fallback
                        /\ \A f \in Callbacks :
                              map_or_else(val, t, f).calls
                                  = IF neg THEN <<Called(t, <<>>)>> ELSE <<Called(f, val.value)>>
              /\ \A p \in Predicates :
                    /\ filter(val, p).calls = IF neg THEN <<>> ELSE <<Called(p, <<val.value>>)>>
                    /\ is_some_and(val, p).calls = IF neg THEN <<>> ELSE <<Called(p, <<val.value>>)>>
                    /\ neg => is_some_and(val, p).end = Returns(PyBool(FALSE))
              /\ \A b \in Options, z \in Zippers :
                    (neg \/ b.cls = "NullType") => zip_with(val, b, z).calls = <<>>
        /\ val \in Results =>
              /\ \A d \in Callbacks :
                    /\ unwrap_or_else(val, d).calls = IF neg THEN <<Called(d, val.error)>> ELSE <<>>
                    /\ \A f \in Callbacks :
                          map_or_else(val, d, f).calls
                              = IF neg THEN <<Called(d, val.error)>> ELSE <<Called(f, val.value)>>
              /\ \A b \in BindersFor(val) :
                    or_else(val, b).calls = IF neg THEN <<Called(b, <<val.error>>)>> ELSE <<>>
              /\ \A p \in Predicates :
                    is_ok_and(val, p).calls = IF neg THEN <<>> ELSE <<Called(p, <<val.value>>)>>
        /\ op \in {"unwrap_or_else", "or_else", "ok_or_else"} => (log = <<>> <=> ~neg)
        /\ op = "map_or_else" => Len(log) = 1
        /\ (neg /\ op \in {"map", "map_or", "and_then", "filter", "is_some_and", "is_ok_and",
                           "inspect", "zip_with"}) => log = <<>>
        /\ (neg /\ op = "is_some_and") => out = Returns(PyBool(FALSE))

C19_Witness ==
    /\ op = "or_else"
    /\ val = Null
    /\ log = <<Called([a \in {<<>>} |-> Some(PyInt(1))], <<>>)>>
    /\ out = Returns(Some(PyInt(1)))

\* C20: no combinator changes its receiver: through every step the variant
\* and the payload of x stay what they were at construction, and an
\* assignment to a field fails.  or_ and or_else on Some and Ok, and_,
\* and_then and map on Err, map_err on Ok, and inspect and inspect_err on every
\* variant return the receiver itself.
C20_Selves ==
    /\ (op = "setattr") => (out.tag = "raise")
    /\ val \in Universe =>
          /\ ~IsNegative(val) =>
                /\ \A b \in Universe : or_(val, b) = Itself(val, <<>>)
                /\ \A t \in Thunks \cup BindersFor(val) : or_else(val, t) = Itself(val, <<>>)
          /\ val.cls = "Err" =>
                /\ \A b \in Universe : and_(val, b) = Itself(val, <<>>)
                /\ \A f \in BindersFor(val) : and_then(val, f) = Itself(val, <<>>)
                /\ \A f \in Callbacks : map(val, f) = Itself(val, <<>>)
          /\ val.cls = "Ok" => \A f \in Callbacks : map_err(val, f) = Itself(val, <<>>)
          /\ \A f \in Callbacks :
                /\ inspect(val, f).ret = "self"
                /\ inspect(val, f).end = Returns(val)
                /\ IsResult(val) =>
                      /\ inspect_err(val, f).ret = "self"
                      /\ inspect_err(val, f).end = Returns(val)
    /\ (/\ op \in {"or_", "or_else", "and_", "and_then", "map", "map_err", "inspect",
                   "inspect_err"}
        /\ \/ op \in {"inspect", "inspect_err"}
           \/ op \in {"or_", "or_else"} /\ ~IsNegative(val)
           \/ op \in {"and_", "and_then", "map"} /\ val.cls = "Err"
           \/ op = "map_err" /\ val.cls = "Ok")
          => ret = "self" /\ out = Returns(val)
C20_Immutable == [][val' = val]_vars /\ []C20_Selves

C20_Witness ==
    /\ op = "or_"
    /\ val = Ok(PyInt(1))
    /\ ret = "self"
    /\ out = Returns(Ok(PyInt(1)))

\* C21: on a receiver of the shape the combinator expects, and with callbacks
\* that raise nothing, every combinator but expect, unwrap, expect_err and
\* unwrap_err returns, on the positive and on the negative variant alike:
\* absence and failure leave a combinator as a returned value only.
C21_CombinatorsReturn ==
    LET shaped ==
            CASE op = "transpose" ->
                    \/ val.cls \in {"NullType", "Err"}
                    \/ val.cls = "Some" /\ IsResult(val.value)
                    \/ val.cls = "Ok" /\ IsOption(val.value)
              [] op = "flatten" -> val.cls = "NullType" \/ IsOption(val.value)
              [] OTHER -> TRUE
    IN  /\ (op \notin {"none", "expect", "unwrap", "expect_err", "unwrap_err", "setattr"}
            /\ shaped) => out.tag = "return"
        /\ (out.tag = "raise" /\ op \in {"expect", "unwrap", "expect_err", "unwrap_err"}) =>
              out.val.cls = "Panic"
        /\ (IsNegative(val) /\ op \in {"map", "and_", "and_then", "filter", "inspect", "xor",
                                       "zip", "zip_with", "flatten"} /\ out.tag = "return"
            /\ IsUnion(out.val)) => IsOption(out.val) = IsOption(val)

C21_Witness ==
    /\ op = "unwrap_or"
    /\ val = Err(PyInt(1))
    /\ out = Returns(PyInt(2))

\* C23 (the claim as stated): Result.expect on an Err raises a Panic whose
\* message includes both the message passed and the content of the Err.
C23_ExpectTellsError ==
    LET Includes(s, t) == \E i \in 1 .. Len(s) : \E j \in i .. Len(s) : SubSeq(s, i, j) = t
    IN  (op = "expect" /\ val.cls = "Err") =>
           /\ out.tag = "raise"
           /\ out.val.cls = "Panic"
           /\ \E msg \in Messages : Includes(Message(out.val).value, msg.value)
           /\ Includes(Message(out.val).value, str(val.error).value)

\* C24: inspect and inspect_err only observe.  x.inspect(f) returns x itself
\* on every variant and calls f, once and with the payload, exactly when x is
\* Some or Ok; r.inspect_err(f) returns r itself and calls f, once and with the
\* error, exactly when r is Err; what f returns is dropped.
C24_InspectObserves ==
    /\ val \in Universe =>
          \A f, g \in Callbacks :
             /\ inspect(val, f)
                   = Itself(val, IF IsNegative(val) THEN <<>> ELSE <<Called(f, val.value)>>)
             /\ inspect(val, f).end = inspect(val, g).end
             /\ IsResult(val) =>
                   /\ inspect_err(val, f)
                         = Itself(val, IF val.cls = "Err" THEN <<Called(f, val.error)>> ELSE <<>>)
                   /\ inspect_err(val, f).end = inspect_err(val, g).end
    /\ op = "inspect" =>
          /\ out = Returns(val) /\ ret = "self"
          /\ log = <<>> <=> IsNegative(val)
          /\ log # <<>> => Len(log) = 1 /\ log[1].arg = val.value
    /\ op = "inspect_err" =>
          /\ out = Returns(val) /\ ret = "self"
          /\ log = <<>> <=> val.cls = "Ok"
          /\ log # <<>> => Len(log) = 1 /\ log[1].arg = val.error

C24_Witness ==
    /\ op = "inspect_err"
    /\ val = Err(PyInt(1))
    /\ out = Returns(Err(PyInt(1)))
    /\ Len(log) = 1
    /\ ret = "self"

\* C25: map and map_err act on different variants.  Err(e).map_err(f) ==
\* Err(f(e)), and Ok(v).map_err(f) == Ok(v) without a call of f; Ok(v).map(f)
\* == Ok(f(v)), and Err(e).map(f) == Err(e) without a call of f.  So
\* r.map(f).map_err(g) == r.map_err(g).map(f) for every Result r.
C25_MapMapErrDisjoint ==
    /\ val \in Results =>
          \A f, g \in Callbacks :
             /\ IF val.cls = "Err"
                THEN /\ PyEq(map_err(val, f).end.val, Err(Invoke(f, val.error)))
                     /\ map_err(val, f).calls = <<Called(f, val.error)>>
                     /\ PyEq(map(val, f).end.val, val)
                     /\ map(val, f).calls = <<>>
                ELSE /\ PyEq(map_err(val, f).end.val, val)
                     /\ map_err(val, f).calls = <<>>
                     /\ PyEq(map(val, f).end.val, Ok(Invoke(f, val.value)))
                     /\ map(val, f).calls = <<Called(f, val.value)>>
             /\ PyEq(map_err(map(val, f).end.val, g).end.val,
                     map(map_err(val, g).end.val, f).end.val)
    /\ op = "map_err" =>
          /\ out.tag = "return"
          /\ out.val.cls = val.cls
          /\ IF val.cls = "Ok"
             THEN log = <<>> /\ out.val = val
             ELSE /\ Len(log) = 1
                  /\ log[1].arg = val.error
                  /\ out.val = Err(Invoke(log[1].fn, val.error))

C25_Witness ==
    /\ op = "map_err"
    /\ val = Err(PyInt(1))
    /\ out = Returns(Err(PyInt(2)))
    /\ Len(log) = 1

\* C26: and_ and or_ select.  a.and_(b) is b when a is Some or Ok, and is a
\* (Null, or the receiver's own Err: the early error, not b's) when a is Null
\* or Err; a.or_(b) is a when a is Some or Ok and b when a is Null or Err, so
\* Err(e1).or_(Err(e2)) == Err(e2).
C26_AndOrSelect ==
    /\ val \in Universe =>
          \A b \in Universe :
             IsOption(b) = IsOption(val) =>
                /\ and_(val, b).end = Returns(IF IsNegative(val) THEN val ELSE b)
                /\ or_(val, b).end = Returns(IF IsNegative(val) THEN b ELSE val)
                /\ and_(val, b).calls = <<>> /\ or_(val, b).calls = <<>>
    /\ (op = "and_" /\ IsNegative(val)) => out = Returns(val)
    /\ (op = "or_" /\ ~IsNegative(val)) => out = Returns(val)
    /\ op \in {"and_", "or_"} => out.tag = "return" /\ IsOption(out.val) = IsOption(val)

C26_Witness ==
    /\ op = "or_"
    /\ val = Err(PyInt(1))
    /\ out = Returns(Err(PyInt(2)))

\* C27: on a Result the fallbacks are given the error.  Err(e).or_else(f) ==
\* f(e), Err(e).unwrap_or_else(f) == f(e) and Err(e).map_or_else(d, f) == d(e);
\* on Ok(v) they give Ok(v), v and f(v) without a call of the fallback.  So
\* a chain of or_else stops at the first Ok: with next always Ok and fail always
\* Err, Err(e).or_else(next).or_else(fail) is next(e) and Err(e).or_else(fail).or_else(fail)
\* is Err(e).
C27_ResultFallbacks ==
    /\ val \in Results =>
          LET next == [a \in {<<p>> : p \in Payloads} |-> Ok(PyInt((a[1].value + 1) % (MaxInt + 1)))]
              fail == [a \in {<<p>> : p \in Payloads} |-> Err(a[1])]
              chain(f, g) == or_else(or_else(val, f).end.val, g).end.val
          IN  /\ next \in Binders /\ fail \in Binders
              /\ \A f \in BindersFor(val) :
                    /\ or_else(val, f).end
                          = Returns(IF val.cls = "Err" THEN CallFn(f, <<val.error>>) ELSE val)
                    /\ or_else(val, f).calls
                          = IF val.cls = "Err" THEN <<Called(f, <<val.error>>)>> ELSE <<>>
                    /\ \A g \in BindersFor(val) :
                          chain(f, g) = IF val.cls = "Ok" THEN val
                                        ELSE IF CallFn(f, <<val.error>>).cls = "Ok"
                                        THEN CallFn(f, <<val.error>>)
                                        ELSE CallFn(g, <<CallFn(f, <<val.error>>).error>>)
              /\ val.cls = "Err" =>
                    /\ chain(next, fail) = CallFn(next, <<val.error>>)
                    /\ chain(fail, fail) = val
              /\ \A d, f \in Callbacks :
                    /\ unwrap_or_else(val, d).end
                          = Returns(IF val.cls = "Err" THEN Invoke(d, val.error) ELSE val.value)
                    /\ unwrap_or_else(val, d).calls
                          = IF val.cls = "Err" THEN <<Called(d, val.error)>> ELSE <<>>
                    /\ map_or_else(val, d, f).end
                          = Returns(IF val.cls = "Err" THEN Invoke(d, val.error)
                                    ELSE Invoke(f, val.value))
                    /\ map_or_else(val, d, f).calls
                          = IF val.cls = "Err" THEN <<Called(d, val.error)>>
                            ELSE <<Called(f, val.value)>>
    /\ (op \in {"or_else", "unwrap_or_else"} /\ val.cls = "Err") =>
          /\ Len(log) = 1
          /\ log[1].arg = IF op = "or_else" THEN <<val.error>> ELSE val.error
          /\ out = Returns(IF op = "or_else" THEN CallFn(log[1].fn, <<val.error>>)
                           ELSE Invoke(log[1].fn, val.error))
    /\ (op = "or_else" /\ val.cls = "Ok") => out = Returns(val) /\ log = <<>>
    /\ (op = "unwrap_or_else" /\ val.cls = "Ok") => out = Returns(val.value) /\ log = <<>>

C27_Witness ==
    /\ op = "or_else"
    /\ val = Err(PyInt(1))
    /\ out = Returns(Ok(PyInt(2)))
    /\ Len(log) = 1
    /\ log[1].arg = <<PyInt(1)>>

====
